---- MODULE Spec2Model ----
(***************************************************************************)
(* Model of src/context/AuthContext.tsx: the AuthProvider component, which *)
(* caches the signed-in identity (user), its profile row (userProfile) and *)
(* a loading flag, and talks to two services: the Auth Service             *)
(* (supabase.auth) and the Profile Store (table user_profiles).            *)
(*                                                                         *)
(* Every await of the source is a step boundary.  An asynchronous call is  *)
(* a task record in the bag `tasks`; its pc names the request it is        *)
(* waiting for.  A request whose answer only makes the caller issue the    *)
(* next request is one step (the service executes it and the caller moves  *)
(* on); a request whose answer is written to the local state is two steps  *)
(* (the service executes it, later the caller handles the answer), so that *)
(* answers can be handled stale and out of order, as in the browser.       *)
(*                                                                         *)
(* Columns of user_profiles the provider only ever writes constants or     *)
(* sign-up metadata to (email, name, full_name, phone, avatar_url,         *)
(* diagnostic_completed) are left out of the rows.  Coin deltas are        *)
(* fixed-point numbers with MoneyScale units per coin, so that Math.floor  *)
(* has something to round.                                                 *)
(***************************************************************************)
EXTENDS Integers, Sequences, FiniteSets, Bags, TLC

VARIABLES
    user,          \* useState user: the cached identity's id, or NoUser
    userProfile,   \* useState userProfile: the cached row, or NoRow
    loading,       \* useState loading
    store,         \* table user_profiles: id -> row or NoRow
    session,       \* Auth Service: the current session's user id, or NoUser
    registered,    \* Auth Service: the identities that exist
    notifs,        \* identity-change notifications not yet delivered
    tasks,         \* bag of asynchronous calls in flight
    chaptersData,  \* the chapter catalog (static data)
    ncalls,        \* operations the UI has started
    budget,        \* operations the UI starts at most
    ev             \* what the last step did, when a property speaks of it

vars == <<user, userProfile, loading, store, session, registered, notifs,
          tasks, chaptersData, ncalls, budget, ev>>

-----------------------------------------------------------------------------
(* Bounds *)

MaxCalls == 1

-----------------------------------------------------------------------------
(* Values *)

\* JavaScript null / undefined in a numeric column or argument.
Null == -999
NoUser == "none"
NoRow == [f \in {} |-> 0]
NoUpdates == [f \in {} |-> 0]

Ids == {"A", "B"}
\* The identity that exists before the component starts, and the one signUp creates.
OldId == "A"
NewId == "B"

\* Fixed-point scale of the coin delta handed to updateUserStats.
MoneyScale == 2
StartingCoins == 100
StartingMoney == 100
FallbackChapter == "class9_ch1"

Fields == {"id", "class_level", "total_coins", "total_correct", "total_wrong",
           "avatar_id", "unlocked_chapters", "money", "total_correct_answers"}

Row(id, level, coins, correct, wrong, avatar, chapters, money, answers) ==
    [id |-> id, class_level |-> level, total_coins |-> coins,
     total_correct |-> correct, total_wrong |-> wrong, avatar_id |-> avatar,
     unlocked_chapters |-> chapters, money |-> money,
     total_correct_answers |-> answers]

Chapter(id, level, order) == [id |-> id, class_level |-> level, order |-> order]

\* Catalogs the static chapters.json may hold: one with a first chapter for
\* class levels 1 and 9, one with no chapter for class level 1.
FullCatalog ==
    << Chapter("class1_ch1", 1, 1), Chapter("class9_ch2", 9, 2), Chapter("class9_ch1", 9, 1) >>
Catalogs ==
    { FullCatalog, << Chapter("class9_ch2", 9, 2), Chapter("class9_ch1", 9, 1) >> }

\* Rows the store may hold for the old identity when the component starts:
\* none, a legacy row (total_coins never filled) with and without money, the
\* row a past signUp left, and a row past stat updates left.
InitialRows ==
    { NoRow,
      Row(OldId, 1, Null, 5, 3, 1, <<"class1_ch1">>, 75, 5),
      Row(OldId, 1, Null, 0, 0, 1, <<"class1_ch1">>, Null, Null),
      Row(OldId, 9, 0, 0, 0, 1, <<"class9_ch1">>, 100, Null),
      Row(OldId, 9, 50, 5, 3, 1, <<"class9_ch1">>, 50, 5) }

\* Arguments of the operations: <<correct, wrong, money * MoneyScale>>.
StatsArgs == { <<2, 1, 21>>, <<0, 1, -1>> }
UpdateArgs == { [avatar_id |-> 2, unlocked_chapters |-> <<"class9_ch1", "class9_ch2">>] }
SignUpLevels == {1, 9}

-----------------------------------------------------------------------------
(* Pure helpers *)

\* a || b on numbers: 0, null and undefined are falsy.
JsOr(a, b) == IF a = Null \/ a = 0 THEN b ELSE a

\* a ?? b
Coalesce(a, b) == IF a = Null THEN b ELSE a

\* Math.floor of a fixed-point number.
Floor(x) == x \div MoneyScale

\* prev?.field
Field(p, f) == IF p = NoRow THEN Null ELSE p[f]

RECURSIVE Find(_, _, _)
Find(cat, level, i) ==
    IF i > Len(cat) THEN NoRow
    ELSE IF cat[i].class_level = level /\ cat[i].order = 1 THEN cat[i]
    ELSE Find(cat, level, i + 1)

RECURSIVE FindLevel(_, _, _)
FindLevel(cat, level, i) ==
    IF i > Len(cat) THEN NoRow
    ELSE IF cat[i].class_level = level THEN cat[i]
    ELSE FindLevel(cat, level, i + 1)

\* Mutant of FirstChapter: the predicate forgets c.order === 1.
FirstChapter_AnyOrder(level) == FindLevel(chaptersData, level, 1)

\* chaptersData.find(c => c.class_level === level && c.order === 1)
FirstChapter(level) == Find(chaptersData, level, 1)

\* Mutant of ApplyUpdate: the write replaces the row, so the numeric columns
\* it does not name are lost.
ApplyUpdate_Replace(row, upd) ==
    IF row = NoRow THEN NoRow
    ELSE [f \in DOMAIN row |->
            IF f \in DOMAIN upd THEN upd[f]
            ELSE IF f \in {"id", "unlocked_chapters"} THEN row[f] ELSE Null]

\* .update(upd).eq('id', id): the named columns of the row, if there is one.
ApplyUpdate(row, upd) ==
    IF row = NoRow THEN NoRow
    ELSE [f \in DOMAIN row |-> IF f \in DOMAIN upd THEN upd[f] ELSE row[f]]

\* The row fetchUserProfile inserts when none is found.
DefaultRow(uid) ==
    LET firstChapter == FirstChapter(1) IN
    Row(uid, 1, StartingCoins, 0, 0, 1,
        IF firstChapter # NoRow THEN <<firstChapter.id>> ELSE <<FallbackChapter>>,
        Null, Null)

\* The row signUp inserts.
SignUpRow(uid, level) ==
    LET firstChapter == FirstChapter(level) IN
    Row(uid, JsOr(level, 1), 0, 0, 0, 1,
        IF firstChapter # NoRow THEN <<firstChapter.id>> ELSE << >>,
        StartingMoney, Null)

\* updatedData.total_coins
ReconciledCoins(data) == Coalesce(data.total_coins, Coalesce(data.money, StartingCoins))

NeedsBackfill(data) == data.total_coins = Null

\* The totals updateUserStats computes from the cached profile.
CurrentCoins(p) == JsOr(Field(p, "total_coins"), JsOr(Field(p, "money"), 0))

NewTotals(p, correct, wrong, money) ==
    LET newTotalCorrect == JsOr(Field(p, "total_correct"), 0) + correct
        newTotalWrong == JsOr(Field(p, "total_wrong"), 0) + wrong
        newTotalCoins == Floor(CurrentCoins(p) * MoneyScale + money)
    IN [total_correct |-> newTotalCorrect, total_wrong |-> newTotalWrong,
        total_coins |-> newTotalCoins, money |-> newTotalCoins,
        total_correct_answers |-> newTotalCorrect]

\* setUserProfile(prev => prev ? {...prev, ...totals} : prev)
OptimisticProfile(prev, upd) == ApplyUpdate(prev, upd)

-----------------------------------------------------------------------------
(* Tasks and events *)

\* A call in flight.  kind, pc, id, data and upd are the call's position and
\* locals; the rest is history the properties read: the arguments the call was
\* made with, the operation that awaits it, whether a fetchUserProfile found
\* no row, and how many rows it has inserted for its userId.
Task(kind, pc, id, data, upd, args, caller, miss, ins) ==
    [kind |-> kind, pc |-> pc, id |-> id, data |-> data, upd |-> upd,
     args |-> args, caller |-> caller, miss |-> miss, ins |-> ins]

NoTask == Task("none", "none", NoUser, NoRow, NoUpdates, << >>, "none", FALSE, 0)

\* fetchUserProfile(id), about to send its select; caller and upd record the
\* operation that awaits it.
FetchTask(pc, id, caller, upd) == Task("fetch", pc, id, NoRow, upd, << >>, caller, FALSE, 0)

Ev(type, t, raised, cause) == [type |-> type, t |-> t, raised |-> raised, cause |-> cause]

\* A step no property speaks of.
Step == Ev("step", NoTask, FALSE, "")

Running == BagToSet(tasks)
Spawn(t) == tasks (+) SetToBag({t})
Finish(t) == tasks (-) SetToBag({t})
Become(t, u) == (tasks (-) SetToBag({t})) (+) SetToBag({u})

CanCall == ncalls < budget

-----------------------------------------------------------------------------
(* Initial state: the component has mounted, the effect has sent getSession *)

Init ==
    /\ user = NoUser
    /\ userProfile = NoRow
    /\ loading = TRUE
    /\ \E r \in InitialRows : store = [i \in Ids |-> IF i = OldId THEN r ELSE NoRow]
    /\ session \in {NoUser, OldId}
    /\ registered = {OldId}
    /\ notifs = << >>
    /\ tasks = SetToBag({Task("init", "getSession", NoUser, NoRow, NoUpdates, << >>, "none", FALSE, 0)})
    /\ chaptersData \in Catalogs
    \* the catalog decides the row of an identity that has none yet
    /\ store[OldId] # NoRow => chaptersData = FullCatalog
    /\ ncalls = 0
    /\ budget = MaxCalls
    /\ ev = Ev("mount", NoTask, FALSE, "")

\* The service executes a request: it answers, or fails.
Answer(ok) == ok \in BOOLEAN

StoreUpdate(id, upd) ==
    IF id \in Ids THEN [store EXCEPT ![id] = ApplyUpdate(@, upd)] ELSE store

-----------------------------------------------------------------------------
(* useEffect: the initial session request and the notification callback *)

\* Mutant of LoadingAfterInit: the catch-callback forgets setLoading(false).
LoadingAfterInit_ThenOnly(outcome) == IF outcome = "ok" THEN FALSE ELSE loading

\* setLoading(...) at the end of the then- and the catch-callback.
LoadingAfterInit(outcome) == FALSE

\* The signOut() the catch-callback of the initial session request starts.
InitSignOut == Task("signOut", "getSession", NoUser, NoRow, NoUpdates, << >>, "init", FALSE, 0)

\* Mutant of RefreshTokenNotFound: every error of the request signs out.
RefreshTokenNotFound_AnyError(outcome) == outcome # "ok"

\* error?.message?.includes('Refresh Token Not Found')
RefreshTokenNotFound(outcome) == outcome = "refresh"

\* supabase.auth.getSession().then(...).catch(...)
InitSession(t, outcome) ==
    /\ t \in Running /\ t.kind = "init"
    /\ outcome \in {"ok", "refresh", "error"}
    /\ Answer(outcome = "ok")
    /\ CASE outcome = "ok" ->
              /\ user' = session
              /\ tasks' = IF session # NoUser
                          THEN Become(t, FetchTask("select", session, "none", NoUpdates))
                          ELSE Finish(t)
         [] outcome # "ok" /\ RefreshTokenNotFound(outcome) ->
              \* signOut(), not awaited
              /\ user' = user
              /\ tasks' = Become(t, InitSignOut)
         [] outcome # "ok" /\ ~RefreshTokenNotFound(outcome) ->
              /\ user' = user
              /\ tasks' = Finish(t)
    /\ loading' = LoadingAfterInit(outcome)
    /\ ev' = Ev("init", t, FALSE, outcome)
    /\ UNCHANGED <<userProfile, store, session, registered, notifs, chaptersData, ncalls, budget>>

\* Mutant of NotifiedProfile: the else branch forgets setUserProfile(null).
NotifiedProfile_Kept(s) == userProfile

\* The cached profile when the callback returns or suspends: untouched with
\* a session user, null without.
NotifiedProfile(s) == IF s # NoUser THEN userProfile ELSE NoRow

\* The onAuthStateChange callback, run for the oldest undelivered notification.
Notify ==
    /\ notifs # << >>
    /\ LET s == Head(notifs) IN
         /\ user' = s
         /\ tasks' = IF s # NoUser
                     THEN Spawn(FetchTask("select", s, "none", NoUpdates))
                     ELSE tasks
         /\ userProfile' = NotifiedProfile(s)
         /\ ev' = Ev("notify", NoTask, FALSE, s)
    /\ notifs' = Tail(notifs)
    /\ UNCHANGED <<loading, store, session, registered, chaptersData, ncalls, budget>>

-----------------------------------------------------------------------------
(* fetchUserProfile *)

\* Mutant of FetchRaises: the catch block rethrows.
FetchRaises_Rethrown(error) == error

\* catch (error) { console.error(...) }: what of an error thrown inside
\* fetchUserProfile reaches its caller.
FetchRaises(error) == FALSE

\* The store executes select('*').eq('id', userId).single() (for the re-fetch
\* of updateUserStats: after its timer has come due).  A failure other
\* than PGRST116 is thrown and caught at once; row-not-found sends getUser;
\* a row with no total_coins sends the backfill update; any other row waits
\* for the caller to handle it.
FetchSelect(t, ok) ==
    /\ t \in Running /\ t.kind = "fetch" /\ t.pc = "select"
    /\ Answer(ok)
    /\ LET data == store[t.id] IN
         IF ~ok
         THEN /\ tasks' = Finish(t)
              /\ ev' = Ev("fetchFail", t, FetchRaises(TRUE), "service")
         ELSE LET u == IF data = NoRow THEN [t EXCEPT !.pc = "getUser", !.miss = TRUE]
                       ELSE IF NeedsBackfill(data)
                       THEN [t EXCEPT !.pc = "backfill", !.data = data]
                       ELSE [t EXCEPT !.pc = "selected", !.data = data]
              IN /\ tasks' = Become(t, u)
                 /\ ev' = Step
    /\ UNCHANGED <<user, userProfile, loading, store, session, registered, notifs,
                   chaptersData, ncalls, budget>>

\* supabase.auth.getUser() answers with the current session's user; with none
\* (which is also what a failed request yields: data.user is null) the call
\* ends without a word.
FetchGetUser(t) ==
    /\ t \in Running /\ t.kind = "fetch" /\ t.pc = "getUser"
    /\ IF session # NoUser
       THEN /\ tasks' = Become(t, [t EXCEPT !.pc = "insert", !.data = DefaultRow(session)])
            /\ ev' = Step
       ELSE /\ tasks' = Finish(t)
            /\ ev' = Ev("fetchNoUser", t, FALSE, "")
    /\ UNCHANGED <<user, userProfile, loading, store, session, registered, notifs,
                   chaptersData, ncalls, budget>>

\* The store executes the insert of the default row (keyed by the id getUser
\* gave); insertError is thrown and caught, otherwise fetchUserProfile(userId)
\* starts over.
FetchInsert(t, ok) ==
    /\ t \in Running /\ t.kind = "fetch" /\ t.pc = "insert"
    /\ Answer(ok)
    /\ LET key == t.data.id
           duplicate == store[key] # NoRow
       IN IF ~ok \/ duplicate
          THEN /\ tasks' = Finish(t)
               /\ store' = store
               /\ ev' = Ev("fetchFail", t, FetchRaises(TRUE),
                          IF ok THEN "duplicate" ELSE "service")
          ELSE LET u == [t EXCEPT !.pc = "select", !.data = NoRow,
                                  !.ins = IF key = t.id THEN @ + 1 ELSE @]
               IN /\ tasks' = Become(t, u)
                  /\ store' = [store EXCEPT ![key] = t.data]
                  /\ ev' = Ev("insert", t, FALSE, "")
    /\ UNCHANGED <<user, userProfile, loading, session, registered, notifs,
                   chaptersData, ncalls, budget>>

\* The store executes update({total_coins: updatedData.total_coins}); its
\* error, if any, is not looked at.
FetchBackfill(t, ok) ==
    /\ t \in Running /\ t.kind = "fetch" /\ t.pc = "backfill"
    /\ Answer(ok)
    /\ LET upd == [total_coins |-> ReconciledCoins(t.data)] IN
         /\ store' = IF ok THEN StoreUpdate(t.id, upd) ELSE store
         /\ tasks' = Become(t, [t EXCEPT !.pc = "selected"])
         /\ ev' = Ev("backfill", t, FALSE, IF ok THEN "" ELSE "service")
    /\ UNCHANGED <<user, userProfile, loading, session, registered, notifs,
                   chaptersData, ncalls, budget>>

\* The record handed to setUserProfile at the end of the found branch.
CachedProfile(data) == data

\* setUserProfile(data): the call completes.
FetchDone(t) ==
    /\ t \in Running /\ t.kind = "fetch" /\ t.pc = "selected"
    /\ userProfile' = CachedProfile(t.data)
    /\ tasks' = Finish(t)
    /\ ev' = Ev("fetchDone", t, FALSE, "")
    /\ UNCHANGED <<user, loading, store, session, registered, notifs,
                   chaptersData, ncalls, budget>>

-----------------------------------------------------------------------------
(* signUp, signIn, signOut *)

\* supabase.auth.signUp(...) answers: an error is thrown to the caller;
\* otherwise the Auth Service has created the identity, opened its session
\* and queued the notification, and signUp sends its insert.
SignUp(level, ok) ==
    /\ CanCall /\ ncalls' = ncalls + 1
    /\ level \in SignUpLevels
    /\ NewId \notin registered
    /\ Answer(ok)
    /\ IF ok
       THEN LET t == Task("signUp", "insert", NewId, SignUpRow(NewId, level),
                          NoUpdates, <<level>>, "none", FALSE, 0)
            IN /\ registered' = registered \cup {NewId}
               /\ session' = NewId
               /\ notifs' = Append(notifs, NewId)
               /\ tasks' = Spawn(t)
               /\ ev' = Step
       ELSE /\ UNCHANGED <<registered, session, notifs, tasks>>
            /\ ev' = Ev("signUpFail", NoTask, TRUE, "service")
    /\ UNCHANGED <<user, userProfile, loading, store, chaptersData, budget>>

\* The store executes signUp's insert: userError is thrown to the caller,
\* otherwise signUp awaits fetchUserProfile(data.user.id).
SignUpInsert(t, ok) ==
    /\ t \in Running /\ t.kind = "signUp" /\ t.pc = "insert"
    /\ Answer(ok)
    /\ LET duplicate == store[t.id] # NoRow IN
         IF ~ok \/ duplicate
         THEN /\ tasks' = Finish(t)
              /\ store' = store
              /\ ev' = Ev("signUpFail", t, TRUE, IF ok THEN "duplicate" ELSE "service")
         ELSE /\ tasks' = Become(t, FetchTask("select", t.id, "none", NoUpdates))
              /\ store' = [store EXCEPT ![t.id] = t.data]
              /\ ev' = Ev("signUpInsert", t, FALSE, "")
    /\ UNCHANGED <<user, userProfile, loading, session, registered, notifs,
                   chaptersData, ncalls, budget>>

\* supabase.auth.signInWithPassword(...) answers: an error is thrown to the
\* caller; otherwise the session is open and the notification is queued.
SignIn(id, ok) ==
    /\ CanCall /\ ncalls' = ncalls + 1
    /\ id \in registered
    /\ Answer(ok)
    /\ IF ok
       THEN /\ session' = id
            /\ notifs' = Append(notifs, id)
            /\ ev' = Step
       ELSE /\ UNCHANGED <<session, notifs>>
            /\ ev' = Step
    /\ UNCHANGED <<user, userProfile, loading, store, registered, tasks, chaptersData, budget>>

\* What signOut leaves in the cache at the end of its try block ("ok") and
\* of its catch block ("error").
SignOutUser(outcome) == NoUser

\* Mutant of SignOutProfile: the catch block forgets setUserProfile(null).
SignOutProfile_TryOnly(outcome) == IF outcome = "ok" THEN NoRow ELSE userProfile

SignOutProfile(outcome) == NoRow

\* signOut() is called and sends getSession.
SignOutCall ==
    /\ CanCall /\ ncalls' = ncalls + 1
    /\ tasks' = Spawn(Task("signOut", "getSession", NoUser, NoRow, NoUpdates, << >>, "none", FALSE, 0))
    /\ ev' = Step
    /\ UNCHANGED <<user, userProfile, loading, store, session, registered, notifs,
                   chaptersData, budget>>

\* getSession answers inside signOut: with a session, auth.signOut() is sent;
\* with none, or on a failure, the cache is cleared and the call completes.
SignOutGetSession(t, ok) ==
    /\ t \in Running /\ t.kind = "signOut" /\ t.pc = "getSession"
    /\ Answer(ok)
    /\ IF ok /\ session # NoUser
       THEN /\ tasks' = Become(t, [t EXCEPT !.pc = "signOut"])
            /\ ev' = Step
            /\ UNCHANGED <<user, userProfile>>
       ELSE LET outcome == IF ok THEN "ok" ELSE "error" IN
            /\ user' = SignOutUser(outcome)
            /\ userProfile' = SignOutProfile(outcome)
            /\ tasks' = Finish(t)
            /\ ev' = Ev("signOutDone", t, FALSE, IF ok THEN "nosession" ELSE "service")
    /\ UNCHANGED <<loading, store, session, registered, notifs, chaptersData, ncalls, budget>>

\* supabase.auth.signOut() answers: on success the session is gone and the
\* notification is queued; its error is thrown into the catch block.
SignOutAuth(t, ok) ==
    /\ t \in Running /\ t.kind = "signOut" /\ t.pc = "signOut"
    /\ Answer(ok)
    /\ LET outcome == IF ok THEN "ok" ELSE "error" IN
         /\ user' = SignOutUser(outcome)
         /\ userProfile' = SignOutProfile(outcome)
         /\ ev' = Ev("signOutDone", t, FALSE, IF ok THEN "" ELSE "service")
    /\ session' = IF ok THEN NoUser ELSE session
    /\ notifs' = IF ok THEN Append(notifs, NoUser) ELSE notifs
    /\ tasks' = Finish(t)
    /\ UNCHANGED <<loading, store, registered, chaptersData, ncalls, budget>>

-----------------------------------------------------------------------------
(* updateUserStats, updateUserProfile *)

\* Mutant of NoIdentity: the guard is missing.
NoIdentity_Unguarded(u) == FALSE

\* if (!user) return;
NoIdentity(u) == u = NoUser

\* Mutant of Throws: the error of the write is not looked at.
Throws_Ignored(error) == FALSE

\* if (error) throw error;
Throws(error) == error

\* updateUserStats(correct, wrong, money) is called: without an identity it
\* returns, otherwise it computes the totals from the cached profile and
\* sends the update.  The closure is the one of the latest render: it reads
\* user and userProfile as they are at the call.
UpdateUserStats(args) ==
    /\ CanCall /\ ncalls' = ncalls + 1
    /\ args \in StatsArgs
    /\ IF NoIdentity(user)
       THEN tasks' = tasks
       ELSE tasks' = Spawn(Task("stats", "write", user, userProfile,
                                NewTotals(userProfile, args[1], args[2], args[3]),
                                args, "none", FALSE, 0))
    /\ ev' = Ev("statsCall", NoTask, FALSE, "")
    /\ UNCHANGED <<user, userProfile, loading, store, session, registered, notifs,
                   chaptersData, budget>>

\* The store executes the update of updateUserStats; its error is thrown to
\* the caller.
StatsWrite(t, ok) ==
    /\ t \in Running /\ t.kind = "stats" /\ t.pc = "write"
    /\ Answer(ok)
    /\ store' = IF ok THEN StoreUpdate(t.id, t.upd) ELSE store
    /\ IF Throws(~ok)
       THEN /\ tasks' = Finish(t)
            /\ ev' = Ev("statsFail", t, TRUE, "service")
       ELSE /\ tasks' = Become(t, [t EXCEPT !.pc = "written"])
            /\ ev' = Ev("statsWrite", t, FALSE, IF ok THEN "" ELSE "service")
    /\ UNCHANGED <<user, userProfile, loading, session, registered, notifs,
                   chaptersData, ncalls, budget>>

\* updateUserStats handles the answer: the optimistic setUserProfile and the
\* setTimeout of the re-fetch.
StatsDone(t) ==
    /\ t \in Running /\ t.kind = "stats" /\ t.pc = "written"
    /\ userProfile' = OptimisticProfile(userProfile, t.upd)
    /\ tasks' = Become(t, FetchTask("select", t.id, "none", NoUpdates))
    /\ ev' = Ev("statsDone", t, FALSE, "")
    /\ UNCHANGED <<user, loading, store, session, registered, notifs,
                   chaptersData, ncalls, budget>>

\* updateUserProfile(updates) is called: without an identity it returns,
\* otherwise it sends the update.
UpdateUserProfile(upd) ==
    /\ CanCall /\ ncalls' = ncalls + 1
    /\ upd \in UpdateArgs
    /\ IF NoIdentity(user)
       THEN tasks' = tasks
       ELSE tasks' = Spawn(Task("profile", "write", user, NoRow, upd, << >>,
                                "none", FALSE, 0))
    /\ ev' = Ev("profileCall", NoTask, FALSE, "")
    /\ UNCHANGED <<user, userProfile, loading, store, session, registered, notifs,
                   chaptersData, budget>>

\* The store executes the update of updateUserProfile; its error is thrown
\* to the caller, otherwise updateUserProfile awaits fetchUserProfile(user.id).
ProfileWrite(t, ok) ==
    /\ t \in Running /\ t.kind = "profile" /\ t.pc = "write"
    /\ Answer(ok)
    /\ store' = IF ok THEN StoreUpdate(t.id, t.upd) ELSE store
    /\ IF Throws(~ok)
       THEN /\ tasks' = Finish(t)
            /\ ev' = Ev("profileFail", t, TRUE, "service")
       ELSE /\ tasks' = Become(t, FetchTask("select", t.id, "profile", t.upd))
            /\ ev' = Ev("profileWrite", t, FALSE, IF ok THEN "" ELSE "service")
    /\ UNCHANGED <<user, userProfile, loading, session, registered, notifs,
                   chaptersData, ncalls, budget>>

-----------------------------------------------------------------------------
(* The component *)

Next ==
    \/ \E t \in Running, outcome \in {"ok", "refresh", "error"} : InitSession(t, outcome)
    \/ Notify
    \/ \E t \in Running, ok \in BOOLEAN : FetchSelect(t, ok)
    \/ \E t \in Running : FetchGetUser(t)
    \/ \E t \in Running, ok \in BOOLEAN : FetchInsert(t, ok)
    \/ \E t \in Running, ok \in BOOLEAN : FetchBackfill(t, ok)
    \/ \E t \in Running : FetchDone(t)
    \/ \E level \in SignUpLevels, ok \in BOOLEAN : SignUp(level, ok)
    \/ \E t \in Running, ok \in BOOLEAN : SignUpInsert(t, ok)
    \/ \E id \in Ids, ok \in BOOLEAN : SignIn(id, ok)
    \/ SignOutCall
    \/ \E t \in Running, ok \in BOOLEAN : SignOutGetSession(t, ok)
    \/ \E t \in Running, ok \in BOOLEAN : SignOutAuth(t, ok)
    \/ \E args \in StatsArgs : UpdateUserStats(args)
    \/ \E t \in Running, ok \in BOOLEAN : StatsWrite(t, ok)
    \/ \E t \in Running : StatsDone(t)
    \/ \E upd \in UpdateArgs : UpdateUserProfile(upd)
    \/ \E t \in Running, ok \in BOOLEAN : ProfileWrite(t, ok)

Spec == Init /\ [][Next]_vars

-----------------------------------------------------------------------------
(* fetchUserProfile on its own: called, run to completion by a service     *)
(* that answers every request, and called once more                        *)

\* Some identity is cached, its fetchUserProfile has sent the select, nothing
\* else is in flight and the UI starts nothing but the second call.  The
\* store holds any of the initial rows for the old identity; the Auth
\* Service's current user is anyone or no one.
InitTwice ==
    /\ user \in Ids
    /\ userProfile = NoRow
    /\ loading = FALSE
    /\ \E r \in InitialRows : store = [i \in Ids |-> IF i = OldId THEN r ELSE NoRow]
    /\ registered = Ids
    /\ session \in {NoUser} \cup registered
    /\ notifs = << >>
    /\ tasks = SetToBag({FetchTask("select", user, "none", NoUpdates)})
    /\ chaptersData \in Catalogs
    /\ store[OldId] # NoRow => chaptersData = FullCatalog
    /\ ncalls = 0
    /\ budget = 1
    /\ ev = Ev("mount", NoTask, FALSE, "")

\* fetchUserProfile(user.id) is called again, the first call having completed.
FetchAgain ==
    /\ CanCall /\ ncalls' = ncalls + 1
    /\ tasks = EmptyBag
    /\ tasks' = Spawn(FetchTask("select", user, "none", NoUpdates))
    /\ ev' = Step
    /\ UNCHANGED <<user, userProfile, loading, store, session, registered, notifs,
                   chaptersData, budget>>

NextTwice ==
    \/ \E t \in Running : FetchSelect(t, TRUE)
    \/ \E t \in Running : FetchGetUser(t)
    \/ \E t \in Running : FetchInsert(t, TRUE)
    \/ \E t \in Running : FetchBackfill(t, TRUE)
    \/ \E t \in Running : FetchDone(t)
    \/ FetchAgain

SpecTwice == InitTwice /\ [][NextTwice]_vars

-----------------------------------------------------------------------------
(* The component with services that answer every request *)

NextOk ==
    \/ \E t \in Running : InitSession(t, "ok")
    \/ Notify
    \/ \E t \in Running : FetchSelect(t, TRUE)
    \/ \E t \in Running : FetchGetUser(t)
    \/ \E t \in Running : FetchInsert(t, TRUE)
    \/ \E t \in Running : FetchBackfill(t, TRUE)
    \/ \E t \in Running : FetchDone(t)
    \/ \E level \in SignUpLevels : SignUp(level, TRUE)
    \/ \E t \in Running : SignUpInsert(t, TRUE)
    \/ \E id \in Ids : SignIn(id, TRUE)
    \/ SignOutCall
    \/ \E t \in Running : SignOutGetSession(t, TRUE)
    \/ \E t \in Running : SignOutAuth(t, TRUE)
    \/ \E args \in StatsArgs : UpdateUserStats(args)
    \/ \E t \in Running : StatsWrite(t, TRUE)
    \/ \E t \in Running : StatsDone(t)
    \/ \E upd \in UpdateArgs : UpdateUserProfile(upd)
    \/ \E t \in Running : ProfileWrite(t, TRUE)

SpecOk == Init /\ [][NextOk]_vars

-----------------------------------------------------------------------------
(* updateUserStats on its own: an identity is signed in, its row is cached *)
(* as stored, and the UI calls updateUserStats more than once              *)

\* The row past stat updates left.
StatsRow == Row(OldId, 9, 50, 5, 3, 1, <<"class9_ch1">>, 50, 5)

InitStats ==
    /\ user = OldId
    /\ userProfile = StatsRow
    /\ loading = FALSE
    /\ store = [i \in Ids |-> IF i = OldId THEN StatsRow ELSE NoRow]
    /\ session = OldId
    /\ registered = {OldId}
    /\ notifs = << >>
    /\ tasks = EmptyBag
    /\ chaptersData = FullCatalog
    /\ ncalls = 0
    /\ budget = MaxCalls + 1
    /\ ev = Ev("mount", NoTask, FALSE, "")

NextStats ==
    \/ \E args \in StatsArgs : UpdateUserStats(args)
    \/ \E t \in Running, ok \in BOOLEAN : StatsWrite(t, ok)
    \/ \E t \in Running : StatsDone(t)
    \/ \E t \in Running, ok \in BOOLEAN : FetchSelect(t, ok)
    \/ \E t \in Running : FetchDone(t)

SpecStats == InitStats /\ [][NextStats]_vars

-----------------------------------------------------------------------------
(* Properties *)

Numeric(p) ==
    /\ p # NoRow
    /\ p.total_correct # Null /\ p.total_wrong # Null /\ p.total_coins # Null

\* C1: a successful write of updateUserStats made from a cached profile with
\* numeric total_correct, total_wrong and total_coins (0 included) stores
\* total_correct + correct, total_wrong + wrong and
\* floor(total_coins + money), with money = total_coins and
\* total_correct_answers = total_correct.  Stated as claimed; the code takes
\* money for total_coins when total_coins is 0.
C1_StatsWriteAddsToCached ==
    (ev.type = "statsWrite" /\ ev.cause = "" /\ Numeric(ev.t.data)) =>
        LET old == ev.t.data
            a == ev.t.args
            w == ev.t.upd
        IN /\ w.total_correct = old.total_correct + a[1]
           /\ w.total_wrong = old.total_wrong + a[2]
           /\ w.total_coins = Floor(old.total_coins * MoneyScale + a[3])
           /\ w.money = w.total_coins
           /\ w.total_correct_answers = w.total_correct
           /\ store[ev.t.id] # NoRow =>
                \A f \in DOMAIN w : store[ev.t.id][f] = w[f]

\* C2: a fetchUserProfile that found no row for its userId, that got a
\* current user from getUser and that no failing service cut short, completes
\* having inserted exactly one row for that userId and with the row it read
\* back in the cache.  Stated as
\* claimed; the code keys the insert by the Auth Service's current user.
C2_MissingRowCreatedOnce ==
    (ev.type \in {"fetchDone", "fetchFail"} /\ ev.t.miss /\ ev.cause # "service") =>
        /\ ev.type = "fetchDone"
        /\ ev.t.ins = 1
        /\ userProfile = ev.t.data

\* C3: when signOut completes it has raised nothing, and the cached identity
\* and profile are both null, whatever getSession and auth.signOut answered.
C3_SignOutClears ==
    ev.type = "signOutDone" =>
        /\ ~ev.raised
        /\ user = NoUser
        /\ userProfile = NoRow

\* C3 witness: signOut completes after auth.signOut() failed, the session
\* still open at the Auth Service.
C3_Witness ==
    /\ ev.type = "signOutDone" /\ ev.cause = "service" /\ ev.t.pc = "signOut"
    /\ session # NoUser
    /\ user = NoUser /\ userProfile = NoRow

\* A write to the store made by updateUserProfile or by the fetchUserProfile
\* it awaits.
ProfileCallWrites ==
    \/ ev.type = "profileWrite" /\ ev.cause = ""
    \/ ev.type = "backfill" /\ ev.cause = "" /\ ev.t.caller = "profile"

\* C4 as claimed: no write of an updateUserProfile call, the fetchUserProfile
\* it awaits included, changes a column of the stored row that the updates
\* do not name.
C4_UnnamedColumnsKept ==
    [][ProfileCallWrites' =>
         LET id == ev'.t.id IN
         store[id] # NoRow =>
            \A f \in Fields \ DOMAIN ev'.t.upd : store'[id][f] = store[id][f]]_vars

\* C4 as amended: no write of an updateUserProfile call changes a column the
\* updates do not name, except that the fetchUserProfile it awaits sets
\* total_coins to money (100 without money) when the row it read had no
\* total_coins.
C4_UnnamedColumnsKeptButBackfill ==
    [][ProfileCallWrites' =>
         LET id == ev'.t.id IN
         store[id] # NoRow =>
            \A f \in Fields \ DOMAIN ev'.t.upd :
               \/ store'[id][f] = store[id][f]
               \/ /\ f = "total_coins"
                  /\ ev'.type = "backfill"
                  /\ ev'.t.data.total_coins = Null
                  /\ store'[id][f] = Coalesce(ev'.t.data.money, StartingCoins)]_vars

\* C4 witness: updateUserProfile has written its updates and the
\* fetchUserProfile it awaits has just backfilled total_coins.
C4_Witness ==
    /\ ev.type = "backfill" /\ ev.cause = "" /\ ev.t.caller = "profile"
    /\ store[ev.t.id] # NoRow
    /\ store[ev.t.id].total_coins # Null
    /\ \A f \in DOMAIN ev.t.upd : store[ev.t.id][f] = ev.t.upd[f]

\* C5: the row a successful signUp inserts for class level N, when the
\* catalog has a chapter c with class_level N and order 1, has
\* unlocked_chapters = <<c.id>>, total_coins 0 and money 100.
C5_SignUpRowFirstChapter ==
    ev.type = "signUpInsert" =>
        LET row == store[ev.t.id]
            level == ev.t.args[1]
        IN \A i \in 1..Len(chaptersData) :
              (chaptersData[i].class_level = level /\ chaptersData[i].order = 1) =>
                 /\ row.unlocked_chapters = <<chaptersData[i].id>>
                 /\ row.total_coins = 0
                 /\ row.money = 100

\* C5 witness: signUp for class level 9 has inserted its row, and the catalog
\* holds a later chapter of that class level before the first one.
C5_Witness ==
    /\ ev.type = "signUpInsert" /\ ev.t.args[1] = 9
    /\ store[ev.t.id] = ev.t.data
    /\ \E i, j \in 1..Len(chaptersData) :
          /\ i < j
          /\ chaptersData[i].class_level = 9 /\ chaptersData[i].order # 1
          /\ chaptersData[j].class_level = 9 /\ chaptersData[j].order = 1

\* C6: a fetchUserProfile that read a row without total_coins backfills the
\* store with money (100 without money), and the profile it caches has that
\* total_coins.  Stated as claimed; the code caches the row as read.
C6_BackfilledCoinsCached ==
    /\ (ev.type = "backfill" /\ ev.cause = "" /\ store[ev.t.id] # NoRow) =>
          store[ev.t.id].total_coins = Coalesce(ev.t.data.money, StartingCoins)
    /\ (/\ ev.type = "fetchDone" /\ ev.t.data.total_coins = Null
        /\ store[ev.t.id].total_coins = Coalesce(ev.t.data.money, StartingCoins)) =>
          userProfile.total_coins = store[ev.t.id].total_coins

\* C7: every row signUp or fetchUserProfile inserts has a non-empty
\* unlocked_chapters.  Stated as claimed; signUp inserts the empty sequence
\* when the catalog has no first chapter for the class level.
C7_CreatedRowsUnlockSomething ==
    ev.type \in {"signUpInsert", "insert"} =>
        /\ store[ev.t.data.id] = ev.t.data
        /\ ev.t.data.unlocked_chapters # << >>

\* C8: updateUserStats and updateUserProfile called without a cached identity
\* raise nothing, start no request and no re-fetch, and leave the identity,
\* the profile and the store as they are.
C8_NoIdentityNoOp ==
    [][(ev'.type \in {"statsCall", "profileCall"} /\ user = NoUser) =>
         /\ ~ev'.raised
         /\ tasks' = tasks
         /\ notifs' = notifs
         /\ user' = user /\ userProfile' = userProfile /\ store' = store]_vars

\* C8 witness: such a call has just returned, none of the store's rows cached.
C8_Witness ==
    /\ ev.type \in {"statsCall", "profileCall"}
    /\ user = NoUser /\ userProfile = NoRow
    /\ \E i \in Ids : store[i] # NoRow

\* C9: when the write of updateUserStats fails, the error is raised to the
\* caller, the cached profile and the store stay as they are and the call is
\* over: no optimistic update and no re-fetch follow.
C9_FailedStatsWriteStops ==
    [][(ev'.type \in {"statsWrite", "statsFail"} /\ ev'.cause = "service") =>
         /\ ev'.raised
         /\ userProfile' = userProfile
         /\ store' = store
         /\ tasks' = tasks (-) SetToBag({ev'.t})]_vars

\* C9 witness: the write failed with a profile in the cache that the
\* optimistic update would have changed.
C9_Witness ==
    /\ ev.type = "statsFail" /\ ev.raised
    /\ userProfile # NoRow
    /\ OptimisticProfile(userProfile, ev.t.upd) # userProfile

InitAnswered == \A t \in Running : t.kind # "init"

\* C10: the step that handles the answer to the initial getSession (session,
\* no session, or failure) leaves loading false, with fetchUserProfile still
\* in flight or not; and loading, once false, stays false.
C10_LoadingSettles ==
    [][/\ (~InitAnswered /\ InitAnswered') => loading' = FALSE
       /\ loading = FALSE => loading' = FALSE]_vars

\* C10 witness: the initial request failed, loading is false and signOut is
\* still in flight.
C10_Witness ==
    /\ InitAnswered /\ loading = FALSE
    /\ \E t \in Running : t.kind = "signOut" /\ t.caller = "init"

\* C11: fetchUserProfile is idempotent: for every identity and every initial
\* content of the store, once a first call has run to completion, a second
\* call run right after it changes neither the store nor the cached profile,
\* so that two calls in sequence leave what one call leaves.  Stated as
\* claimed; the first call caches a row without total_coins as read, the
\* second caches the backfilled row.
C11_FetchTwiceAsOnce ==
    [][ncalls = 1 => (store' = store /\ userProfile' = userProfile)]_vars

\* C12: in every reachable state, a cached profile comes with a cached
\* identity and is that identity's row: userProfile non-null implies user
\* non-null and userProfile.id = user.id.  Stated as claimed, for the states
\* in which the initial session request has been answered and every
\* notification has been delivered; an answer to fetchUserProfile is cached
\* whoever is signed in when it arrives.
C12_ProfileBelongsToIdentity ==
    (InitAnswered /\ notifs = << >> /\ userProfile # NoRow) =>
        (user # NoUser /\ userProfile.id = user)

\* C13: the step that delivers a notification sets the cached identity to
\* the notification's session user (null with no session); with no session
\* it sets the cached profile to null in that same step, and with a session
\* it starts one fetchUserProfile for the session user's id.
C13_NotificationReplacesIdentity ==
    [][ev'.type = "notify" =>
         LET s == Head(notifs)
             started == FetchTask("select", s, "none", NoUpdates)
         IN /\ user' = s
            /\ s = NoUser => (userProfile' = NoRow /\ tasks' = tasks)
            /\ s # NoUser => tasks' = tasks (+) SetToBag({started})]_vars

\* C13 witness: the notification of the new identity has just been delivered
\* over the old identity's cached profile, and the fetchUserProfile for the
\* new identity is about to send its select.
C13_Witness ==
    /\ ev.type = "notify" /\ ev.cause = NewId
    /\ user = NewId
    /\ userProfile # NoRow /\ userProfile.id = OldId
    /\ \E t \in Running : t.kind = "fetch" /\ t.pc = "select" /\ t.id = NewId

\* C14: when the select of fetchUserProfile fails with an error other than
\* row-not-found, or when its create-on-missing insert fails, that step
\* changes neither the store nor the cached profile, raises nothing to the
\* caller and ends the call, so that no insert and no update follows.
C14_FetchErrorsSwallowed ==
    [][ev'.type = "fetchFail" =>
         /\ ev'.t.pc \in {"select", "insert"}
         /\ ~ev'.raised
         /\ store' = store
         /\ userProfile' = userProfile
         /\ tasks' = tasks (-) SetToBag({ev'.t})]_vars

\* C14 witness: the select has just failed in a fetchUserProfile that had
\* touched nothing, with a profile in the cache that is not the stored row
\* and stays as it is.
C14_Witness ==
    /\ ev.type = "fetchFail" /\ ev.t.pc = "select" /\ ev.cause = "service"
    /\ ~ev.t.miss /\ ev.t.ins = 0
    /\ userProfile # NoRow
    /\ store[ev.t.id] # NoRow /\ store[ev.t.id] # userProfile

\* C15: the step that handles a failure of the initial session request sets
\* loading to false; when the failure is 'Refresh Token Not Found' it starts
\* a signOut, and when that signOut completes the cached identity and profile
\* are null; on any other failure it starts no signOut and leaves the cached
\* identity and profile alone.
C15_InitFailureHandling ==
    [][/\ (ev'.type = "init" /\ ev'.cause = "refresh") =>
            /\ loading' = FALSE
            /\ tasks' = (tasks (-) SetToBag({ev'.t})) (+) SetToBag({InitSignOut})
       /\ (ev'.type = "init" /\ ev'.cause = "error") =>
            /\ loading' = FALSE
            /\ tasks' = tasks (-) SetToBag({ev'.t})
            /\ user' = user /\ userProfile' = userProfile
       /\ (ev'.type = "signOutDone" /\ ev'.t.caller = "init") =>
            /\ user' = NoUser /\ userProfile' = NoRow
            /\ loading' = FALSE]_vars

\* C15 witness: the signOut started by the failed initial request has sent
\* auth.signOut() and completed; nothing is cached, loading is false and the
\* store still holds a row.
C15_Witness ==
    /\ ev.type = "signOutDone" /\ ev.t.caller = "init" /\ ev.t.pc = "signOut"
    /\ user = NoUser /\ userProfile = NoRow /\ loading = FALSE
    /\ \E i \in Ids : store[i] # NoRow

\* Nothing is in flight: every call has completed, every notification has
\* been delivered and every delayed re-fetch has run.
Quiescent == tasks = EmptyBag /\ notifs = << >>

\* C16: with services that answer every request, once every started
\* operation, every response and every delayed re-fetch has completed and
\* an identity is cached, the cached profile is the row the store holds for
\* that identity.  Stated as claimed, for the states whose cached profile
\* has total_coins, which leaves aside the rows fetchUserProfile caches as
\* read while it backfills the store (C6); answers are cached in the order
\* they are handled, not in the order the store gave them.
C16_Reconciled ==
    (Quiescent /\ user # NoUser /\ Field(userProfile, "total_coins") # Null) =>
        userProfile = store[user]

\* C17: stat updates accumulate.  The store holds StatsRow before the first
\* call; when the write of one updateUserStats call has just succeeded while
\* another call, whose write has succeeded too, has not yet handled its
\* answer, the stored total_correct and total_wrong are those of StatsRow
\* plus the deltas of both calls, and the stored total_coins is what the two
\* deltas, floored one after the other in either order, add to StatsRow's.
\* Stated as claimed; both calls compute their totals from the same cached
\* profile.
C17_StatsAccumulate ==
    (ev.type = "statsWrite" /\ ev.cause = "") =>
        \A t1 \in Running :
           (/\ t1.kind = "stats" /\ t1.pc = "written"
            /\ (t1 # [ev.t EXCEPT !.pc = "written"] \/ CopiesIn(t1, tasks) > 1)) =>
              LET a == t1.args
                  b == ev.t.args
                  row == store[ev.t.id]
                  coins == StatsRow.total_coins * MoneyScale
              IN /\ row.total_correct = StatsRow.total_correct + a[1] + b[1]
                 /\ row.total_wrong = StatsRow.total_wrong + a[2] + b[2]
                 /\ row.total_coins \in
                       { Floor(Floor(coins + a[3]) * MoneyScale + b[3]),
                         Floor(Floor(coins + b[3]) * MoneyScale + a[3]) }

\* C18: a signUp the Auth Service accepted is not preempted by the
\* create-on-missing branch: once the new identity's notification has been
\* delivered, no fetchUserProfile started for the new identity inserts its
\* default row for it, and the store rejects signUp's own insert only when
\* the service fails, never as a duplicate.  Stated as claimed; nothing
\* orders the notification's fetchUserProfile after signUp's insert.
C18_SignUpNotPreempted ==
    /\ ~(/\ ev.type = "insert" /\ ev.t.id = NewId /\ ev.t.data = DefaultRow(NewId)
         /\ notifs = << >>)
    /\ (ev.type = "signUpFail" /\ ev.t.kind = "signUp") => ev.cause = "service"

\* C19: a successful write of an updateUserStats call made with non-negative
\* deltas lowers none of total_correct, total_wrong and total_coins of the
\* stored row: each is, after the write, at least what the row held just
\* before it (a null counting as 0), whatever the cached profile was at the
\* call.  Stated as claimed; the totals are computed from the cached profile
\* alone, and from 0 without one.
C19_StatsNeverLower ==
    [][(/\ ev'.type = "statsWrite" /\ ev'.cause = ""
        /\ \A k \in 1..3 : ev'.t.args[k] >= 0
        /\ store[ev'.t.id] # NoRow) =>
          \A f \in {"total_correct", "total_wrong", "total_coins"} :
             store'[ev'.t.id][f] >= Coalesce(store[ev'.t.id][f], 0)]_vars

\* C20: the row the create-on-missing branch of fetchUserProfile(userId)
\* inserts is keyed by userId, whoever the Auth Service's current user is
\* when getUser is answered: the inserted row is the row of userId and of no
\* other identity.  Stated as claimed; the code keys the row by
\* userData.user.id.
C20_InsertKeyedByCallId ==
    ev.type = "insert" =>
        /\ ev.t.data.id = ev.t.id
        /\ store[ev.t.id] = ev.t.data

====
